---- MODULE Spec2Model ----
(***************************************************************************)
(* Model of the fast large-document ingestion pipeline of                  *)
(* fast_large_document_processor.py: streaming parse, intelligent          *)
(* chunking, chunk selection, embedding and upload, as sequenced by        *)
(* fast_process_large_document.                                            *)
(*                                                                         *)
(* A Python str is a sequence of one-character strings.  A Python dict is  *)
(* a function whose DOMAIN is its set of keys.  Python lists are           *)
(* sequences; a list of chunk dicts that aliases the dicts of another list *)
(* is a sequence of references (positions) into that list.                 *)
(***************************************************************************)
EXTENDS Integers, Sequences, FiniteSets, TLC

VARIABLES
    pc,               \* position in the code: the stage about to run
    file_source,      \* which of file_path / file_content is truthy
    doc,              \* the document behind the source
    query,            \* the query argument: None or a str
    all_texts,        \* page texts (argument texts of intelligent_chunk_split)
    max_chunk_chars,  \* the chunking budget
    chunks,           \* list of chunk dicts
    top_k,            \* the selection cap
    selected_chunks,  \* list of references into chunks
    stats,            \* the stats dict
    outcome,          \* "running", "returned" or "propagated"
    raised,           \* the exception raised inside the try block, and where
    stream,           \* the page generator: its batch_size and the batches yielded
    embedder,         \* the FastEmbedder: embedding_cache, and its calls so far
    pinecone,         \* the Pinecone index: its records, and the calls so far
    processing_jobs,  \* api_fast_uploads.processing_jobs: job_id -> job dict
    request,          \* one call of fast_upload_and_analyze and its background task
    batch_upload,     \* one call of fast_batch_upload and its upload_file tasks
    processor         \* a ParallelProcessor and one call of run_blocking

vars == <<pc, file_source, doc, query, all_texts, max_chunk_chars, chunks,
          top_k, selected_chunks, stats, outcome, raised, stream, embedder,
          pinecone, processing_jobs, request, batch_upload, processor>>

\* Python None; a str is a sequence of one-character strings, so this is no str
None == <<"None">>

-----------------------------------------------------------------------------
(* str operations *)

NL == "\n"
Whitespace == {" ", NL}

\* str.strip(): drop leading and trailing whitespace
RECURSIVE LStrip(_)
LStrip(s) ==
    IF s # <<>> /\ Head(s) \in Whitespace THEN LStrip(Tail(s)) ELSE s

RECURSIVE RStrip(_)
RStrip(s) ==
    IF s # <<>> /\ s[Len(s)] \in Whitespace
    THEN RStrip(SubSeq(s, 1, Len(s) - 1))
    ELSE s

Strip(s) == RStrip(LStrip(s))

\* positions at which sub occurs in s
Occurrences(sub, s) ==
    {i \in 1..(Len(s) - Len(sub) + 1) : SubSeq(s, i, i + Len(sub) - 1) = sub}

\* sub in s
Contains(sub, s) == Occurrences(sub, s) # {}

Min(S) == CHOOSE x \in S : \A y \in S : x <= y

\* str.split(sep) for a non-empty separator: cut at the leftmost occurrence,
\* then split the rest
RECURSIVE SplitOn(_, _)
SplitOn(sep, s) ==
    IF Occurrences(sep, s) = {}
    THEN <<s>>
    ELSE LET i == Min(Occurrences(sep, s))
         IN  <<SubSeq(s, 1, i - 1)>> \o SplitOn(sep, SubSeq(s, i + Len(sep), Len(s)))

BlankLine == <<NL, NL>>

RECURSIVE Flatten(_)
Flatten(ss) == IF ss = <<>> THEN <<>> ELSE Head(ss) \o Flatten(Tail(ss))

-----------------------------------------------------------------------------
(* intelligent_chunk_split *)

Chunk(id, text, count) ==
    [chunk_id |-> id, chunk_text |-> text, char_count |-> count]

\* state of the loops: the chunks list, the buffer and the next id.
\* nsec and cur_nsec count the sections joined into each chunk and into the
\* buffer; they are bookkeeping of the model, not fields of the program.
ChunkLoopInit ==
    [chunks |-> <<>>, current_chunk |-> <<>>, chunk_id |-> 0,
     nsec |-> <<>>, cur_nsec |-> 0]

\* a variant that does not skip a whitespace-only section
ChunkSectionNoSkip(st, section, budget) ==
    IF Len(st.current_chunk) + Len(section) > budget /\ st.current_chunk # <<>>
    THEN [chunks |-> Append(st.chunks,
                       Chunk(st.chunk_id, Strip(st.current_chunk), Len(st.current_chunk))),
          current_chunk |-> section,
          chunk_id |-> st.chunk_id + 1,
          nsec |-> Append(st.nsec, st.cur_nsec),
          cur_nsec |-> 1]
    ELSE [st EXCEPT !.current_chunk =
                        IF st.current_chunk # <<>>
                        THEN st.current_chunk \o BlankLine \o section
                        ELSE section,
                    !.cur_nsec = st.cur_nsec + 1]

\* one iteration of the inner loop, lines 108-122
ChunkSection(st, section, budget) ==
    IF Strip(section) = <<>> THEN st
    ELSE IF Len(st.current_chunk) + Len(section) > budget /\ st.current_chunk # <<>>
    THEN [chunks |-> Append(st.chunks,
                       Chunk(st.chunk_id, Strip(st.current_chunk), Len(st.current_chunk))),
          current_chunk |-> section,
          chunk_id |-> st.chunk_id + 1,
          nsec |-> Append(st.nsec, st.cur_nsec),
          cur_nsec |-> 1]
    ELSE [st EXCEPT !.current_chunk =
                        IF st.current_chunk # <<>>
                        THEN st.current_chunk \o BlankLine \o section
                        ELSE section,
                    !.cur_nsec = st.cur_nsec + 1]

RECURSIVE ChunkSections(_, _, _)
ChunkSections(st, sections, budget) ==
    IF sections = <<>> THEN st
    ELSE ChunkSections(ChunkSection(st, Head(sections), budget), Tail(sections), budget)

\* the outer loop, lines 104-106: every page is split on blank lines
RECURSIVE ChunkPages(_, _, _)
ChunkPages(st, texts, budget) ==
    IF texts = <<>> THEN st
    ELSE ChunkPages(ChunkSections(st, SplitOn(BlankLine, Head(texts)), budget),
                    Tail(texts), budget)

\* mutant: the remaining buffer is not flushed
ChunkFlushNone(st) == st

\* the flush of the remaining buffer, lines 125-130
ChunkFlush(st) ==
    IF Strip(st.current_chunk) # <<>>
    THEN [st EXCEPT !.chunks = Append(st.chunks,
                        Chunk(st.chunk_id, Strip(st.current_chunk), Len(st.current_chunk))),
                    !.nsec = Append(st.nsec, st.cur_nsec)]
    ELSE st

ChunkRun(texts, budget) == ChunkFlush(ChunkPages(ChunkLoopInit, texts, budget))

intelligent_chunk_split(texts, budget) == ChunkRun(texts, budget).chunks

-----------------------------------------------------------------------------
(* select_most_relevant_chunks *)

UpperCase == <<"A","B","C","D","E","F","G","H","I","J","K","L","M",
               "N","O","P","Q","R","S","T","U","V","W","X","Y","Z">>
LowerCase == <<"a","b","c","d","e","f","g","h","i","j","k","l","m",
               "n","o","p","q","r","s","t","u","v","w","x","y","z">>

LowerChar(c) ==
    IF \E i \in 1..26 : UpperCase[i] = c
    THEN LowerCase[CHOOSE i \in 1..26 : UpperCase[i] = c]
    ELSE c

\* str.lower()
RECURSIVE Lower(_)
Lower(s) == IF s = <<>> THEN <<>> ELSE <<LowerChar(Head(s))>> \o Lower(Tail(s))

\* str.split() without argument: the maximal runs of non-whitespace
RECURSIVE TakeWord(_)
TakeWord(s) ==
    IF s = <<>> \/ Head(s) \in Whitespace THEN <<>>
    ELSE <<Head(s)>> \o TakeWord(Tail(s))

RECURSIVE SplitWhitespace(_)
SplitWhitespace(s) ==
    LET t == LStrip(s)
        w == TakeWord(t)
    IN  IF t = <<>> THEN <<>>
        ELSE <<w>> \o SplitWhitespace(SubSeq(t, Len(w) + 1, Len(t)))

\* line 274-275
important_terms ==
    << <<"t","e","r","m">>,
       <<"l","i","a","b","i","l","i","t","y">>,
       <<"p","a","y","m","e","n","t">>,
       <<"c","o","n","f","i","d","e","n","t","i","a","l">>,
       <<"t","e","r","m","i","n","a","t","i","o","n">>,
       <<"i","n","d","e","m","n","i","f">>,
       <<"c","o","m","p","l","i","a","n","c","e">>,
       <<"r","i","s","k">>,
       <<"b","r","e","a","c","h">>,
       <<"o","b","l","i","g","a","t","i","o","n">> >>

Word_term == <<"t","e","r","m">>
Word_condition == <<"c","o","n","d","i","t","i","o","n">>

FirstChunkBonus == 100
KeywordBonus == 50
ImportantTermBonus == 10
TermsSectionBonus == 20

\* number of list positions whose word occurs in text
CountMatches(words, text) ==
    Cardinality({i \in 1..Len(words) : Contains(words[i], text)})

\* a variant without the bonus of the first chunk
ScoreNoFirstChunk(chunk, query_keywords) ==
    LET keyword_lower == [i \in 1..Len(query_keywords) |-> Lower(query_keywords[i])]
        text_lower == Lower(chunk.chunk_text)
    IN  KeywordBonus * CountMatches(keyword_lower, text_lower)
        + ImportantTermBonus * CountMatches(important_terms, text_lower)
        + (IF Contains(Word_term, text_lower) \/ Contains(Word_condition, text_lower)
           THEN TermsSectionBonus ELSE 0)

\* a variant that compares with the text as written
ScoreCaseSensitive(chunk, query_keywords) ==
    (IF chunk.chunk_id = 0 THEN FirstChunkBonus ELSE 0)
    + KeywordBonus * CountMatches(query_keywords, chunk.chunk_text)
    + ImportantTermBonus * CountMatches(important_terms, chunk.chunk_text)
    + (IF Contains(Word_term, chunk.chunk_text)
          \/ Contains(Word_condition, chunk.chunk_text)
       THEN TermsSectionBonus ELSE 0)

\* the score of one chunk, lines 261-282
Score(chunk, query_keywords) ==
    LET keyword_lower == [i \in 1..Len(query_keywords) |-> Lower(query_keywords[i])]
        text_lower == Lower(chunk.chunk_text)
    IN  (IF chunk.chunk_id = 0 THEN FirstChunkBonus ELSE 0)
        + KeywordBonus * CountMatches(keyword_lower, text_lower)
        + ImportantTermBonus * CountMatches(important_terms, text_lower)
        + (IF Contains(Word_term, text_lower) \/ Contains(Word_condition, text_lower)
           THEN TermsSectionBonus ELSE 0)

\* chunk["relevance_score"] = score
SetField(d, key, value) == (key :> value) @@ d

\* mutant: relevance_score is set before the test score > 0
RECURSIVE ScoreLoopAll(_, _, _)
ScoreLoopAll(cs, query_keywords, i) ==
    IF i = 0 THEN [chunks |-> cs, selected |-> <<>>]
    ELSE LET st == ScoreLoopAll(cs, query_keywords, i - 1)
             score == Score(cs[i], query_keywords)
         IN  [chunks |-> [st.chunks EXCEPT ![i] = SetField(@, "relevance_score", score)],
              selected |-> IF score > 0 THEN Append(st.selected, i) ELSE st.selected]

\* the scoring loop, lines 260-286, after its first i iterations: the chunk
\* dicts (a chunk whose score is positive has got the key relevance_score)
\* and the list selected, as references into the chunk list
RECURSIVE ScoreLoop(_, _, _)
ScoreLoop(cs, query_keywords, i) ==
    IF i = 0 THEN [chunks |-> cs, selected |-> <<>>]
    ELSE LET st == ScoreLoop(cs, query_keywords, i - 1)
             score == Score(cs[i], query_keywords)
         IN  IF score > 0
             THEN [chunks |-> [st.chunks EXCEPT ![i] = SetField(@, "relevance_score", score)],
                   selected |-> Append(st.selected, i)]
             ELSE st

\* the chunk dicts after the call
ScoreChunks(cs, query_keywords) == ScoreLoop(cs, query_keywords, Len(cs)).chunks

\* mutant: a descending sort that reverses the order of equal keys
SortDescUnstable(refs, key) ==
    LET n == Len(refs)
        before(j) == {l \in 1..n : \/ key[refs[l]] > key[refs[j]]
                                   \/ key[refs[l]] = key[refs[j]] /\ l > j}
    IN  [p \in 1..n |-> refs[CHOOSE j \in 1..n : Cardinality(before(j)) = p - 1]]

\* list.sort(key, reverse=True): stable, descending by key.  The element at
\* position j of the list goes behind the elements with a greater key and
\* behind the earlier elements with the same key.
SortDesc(refs, key) ==
    LET n == Len(refs)
        before(j) == {l \in 1..n : \/ key[refs[l]] > key[refs[j]]
                                   \/ key[refs[l]] = key[refs[j]] /\ l < j}
    IN  [p \in 1..n |-> refs[CHOOSE j \in 1..n : Cardinality(before(j)) = p - 1]]

Max2(a, b) == IF a >= b THEN a ELSE b
Min2(a, b) == IF a <= b THEN a ELSE b

\* mutant: a slice that keeps one element more
SliceToInclusive(s, k) == SubSeq(s, 1, Min2(k + 1, Len(s)))

\* list[:k]
SliceTo(s, k) ==
    IF k >= 0 THEN SubSeq(s, 1, Min2(k, Len(s)))
    ELSE SubSeq(s, 1, Max2(0, Len(s) + k))

\* the returned list, as references into the scored chunk list
select_most_relevant_chunks(cs, query_keywords, k) ==
    LET st == ScoreLoop(cs, query_keywords, Len(cs))
        key == [i \in 1..Len(cs) |->
                   IF "relevance_score" \in DOMAIN st.chunks[i]
                   THEN st.chunks[i].relevance_score ELSE 0]
    IN  SliceTo(SortDesc(st.selected, key), k)

\* range(start, stop, step) for step > 0
RECURSIVE PyRange(_, _, _)
PyRange(start, stop, step) ==
    IF start >= stop THEN <<>>
    ELSE <<start>> \o PyRange(start + step, stop, step)

NoQueryDivisor == 10

\* mutant: the range stops one chunk early
NoQuerySelectionShort(cs) ==
    LET first == IF cs # <<>> THEN <<1>> ELSE <<>>
        idx == PyRange(1, Len(cs) - 1, Max2(1, Len(cs) \div NoQueryDivisor))
    IN  first \o [j \in 1..Len(idx) |-> idx[j] + 1]

\* mutant: the range starts at chunk 0
NoQuerySelectionFromZero(cs) ==
    LET first == IF cs # <<>> THEN <<1>> ELSE <<>>
        idx == PyRange(0, Len(cs), Max2(1, Len(cs) \div NoQueryDivisor))
    IN  first \o [j \in 1..Len(idx) |-> idx[j] + 1]

\* the fallback without query, lines 441-442, as references into cs
NoQuerySelection(cs) ==
    LET first == IF cs # <<>> THEN <<1>> ELSE <<>>
        idx == PyRange(1, Len(cs), Max2(1, Len(cs) \div NoQueryDivisor))
    IN  first \o [j \in 1..Len(idx) |-> idx[j] + 1]

-----------------------------------------------------------------------------
(* stream_pdf_pages / stream_upload_file *)

\* a page whose extract_text() raises
ExtractError == <<"ExtractError">>

StreamBatchSize == 5

\* the batches yielded for a list of page texts, lines 38-46 and 68-75, up
\* to the end of the document or to the page whose extract_text() raises
RECURSIVE StreamLoop(_, _, _, _)
StreamLoop(pages, idx, batch, batch_size) ==
    IF idx >= Len(pages) THEN <<>>
    ELSE IF pages[idx + 1] = ExtractError THEN <<>>
    ELSE LET b == Append(batch, pages[idx + 1])
         IN  IF Len(b) = batch_size \/ idx = Len(pages) - 1
             THEN <<b>> \o StreamLoop(pages, idx + 1, <<>>, batch_size)
             ELSE StreamLoop(pages, idx + 1, b, batch_size)

\* a variant that yields full batches only
StreamBatchesFullOnly(pages, batch_size) ==
    SelectSeq(StreamLoop(pages, 0, <<>>, batch_size), LAMBDA b : Len(b) = batch_size)

StreamBatches(pages, batch_size) == StreamLoop(pages, 0, <<>>, batch_size)

Exc(type, msg) == [type |-> type, msg |-> msg]

\* draining one of the two generators: the batches it yields, and the
\* exception its except clause raises if PdfReader or extract_text raises
StreamAll(d, prefix, batch_size) ==
    IF ~d.openable
    THEN [ok |-> FALSE, batches |-> <<>>,
          exc |-> Exc("Exception", <<prefix, "cannot open">>)]
    ELSE IF \E i \in 1..Len(d.pages) : d.pages[i] = ExtractError
    THEN [ok |-> FALSE, batches |-> StreamBatches(d.pages, batch_size),
          exc |-> Exc("Exception", <<prefix, "extract_text failed">>)]
    ELSE [ok |-> TRUE, batches |-> StreamBatches(d.pages, batch_size)]

\* a generator that has not been advanced
StreamInit(batch_size) == [batch_size |-> batch_size, batches |-> <<>>, raised |-> FALSE]

stream_pdf_pages(d, batch_size) == StreamAll(d, "Error streaming PDF: ", batch_size)
stream_upload_file(d, batch_size) == StreamAll(d, "Error streaming upload: ", batch_size)

-----------------------------------------------------------------------------
(* FastEmbedder *)

\* hashlib.md5(text.encode()).hexdigest(): distinct texts, distinct digests
Md5(text) == <<"md5", text>>

\* the vector the n-th invocation of model.encode computes for a text
Encode(text, n) == <<"vec", text, n>>

\* __init__, lines 143-148; calls is the record of the embed_batch calls
\* made on the instance
EmbedderInit == [model |-> "None", embedding_cache |-> <<>>, calls |-> <<>>]

\* a variant that does not consult the cache
embed_batch_uncached(cache, texts, n) ==
    LET new == [h \in {Md5(texts[i]) : i \in 1..Len(texts)} |-> Encode(h[2], n)]
    IN  [cache |-> new @@ cache,
         encoded |-> texts,
         writes |-> [i \in 1..Len(texts) |->
                        [text_hash |-> Md5(texts[i]), embedding |-> Encode(texts[i], n)]],
         result |-> [i \in 1..Len(texts) |-> new[Md5(texts[i])]]]

\* a variant that encodes the cached texts again and stores the new vectors
embed_batch_rewriting(cache, texts, n) ==
    LET uncached == SelectSeq([i \in 1..Len(texts) |-> i],
                              LAMBDA i : Md5(texts[i]) \notin DOMAIN cache)
        new == [h \in {Md5(texts[i]) : i \in 1..Len(texts)} |-> Encode(h[2], n)]
        cache2 == new @@ cache
    IN  [cache |-> cache2,
         encoded |-> [j \in 1..Len(uncached) |-> texts[uncached[j]]],
         writes |-> [i \in 1..Len(texts) |->
                        [text_hash |-> Md5(texts[i]), embedding |-> Encode(texts[i], n)]],
         result |-> [i \in 1..Len(texts) |-> cache2[Md5(texts[i])]]]

\* embed_batch, lines 171-208, in the n-th call on the instance: the cache
\* after the call, the texts handed to model.encode, the assignments to
\* self.embedding_cache of line 196 in their order, and the returned list.
\* One invocation of model.encode computes equal vectors for equal texts.
embed_batch(cache, texts, n) ==
    LET uncached == SelectSeq([i \in 1..Len(texts) |-> i],
                              LAMBDA i : Md5(texts[i]) \notin DOMAIN cache)
        new == [h \in {Md5(texts[uncached[j]]) : j \in 1..Len(uncached)} |->
                   Encode(h[2], n)]
        cache2 == new @@ cache
    IN  [cache |-> cache2,
         encoded |-> [j \in 1..Len(uncached) |-> texts[uncached[j]]],
         writes |-> [j \in 1..Len(uncached) |->
                        [text_hash |-> Md5(texts[uncached[j]]),
                         embedding |-> Encode(texts[uncached[j]], n)]],
         result |-> [i \in 1..Len(texts) |-> cache2[Md5(texts[i])]]]

EmbedFailures == {"none", "load_model", "encode"}

\* a variant in which the vectors encoded before the failure are cached
EmbedBatchCallCaching(e, texts, failure) ==
    LET r == embed_batch(e.embedding_cache, texts, Len(e.calls) + 1)
    IN  [model |-> "loaded",
         embedding_cache |-> r.cache,
         calls |-> Append(e.calls,
                          [texts |-> texts, encoded |-> r.encoded,
                           writes |-> r.writes,
                           ok |-> failure = "none", result |-> r.result])]

\* one call of embed_batch on the instance e, lines 169-208: load_model
\* (line 169) or model.encode (line 186) may raise, and then the call
\* raises before the cache is written
EmbedBatchCall(e, texts, failure) ==
    LET r == embed_batch(e.embedding_cache, texts, Len(e.calls) + 1)
    IN  IF failure = "load_model"
        THEN [e EXCEPT !.calls = Append(@, [texts |-> texts, encoded |-> <<>>,
                                            writes |-> <<>>,
                                            ok |-> FALSE, result |-> <<>>])]
        ELSE IF failure = "encode"
        THEN [e EXCEPT !.model = "loaded",
                       !.calls = Append(@, [texts |-> texts, encoded |-> r.encoded,
                                            writes |-> <<>>,
                                            ok |-> FALSE, result |-> <<>>])]
        ELSE [model |-> "loaded",
              embedding_cache |-> r.cache,
              calls |-> Append(e.calls, [texts |-> texts, encoded |-> r.encoded,
                                         writes |-> r.writes,
                                         ok |-> TRUE, result |-> r.result])]

\* the model is loaded only while self.model is None, line 152, and
\* model.encode is invoked only for uncached texts, line 185
CanFail(e, texts, failure) ==
    /\ failure = "load_model" => e.model = "None"
    /\ failure = "encode" =>
           embed_batch(e.embedding_cache, texts, Len(e.calls) + 1).encoded # <<>>

-----------------------------------------------------------------------------
(* async_upsert_to_pinecone *)

UploadBatchSize == 100

\* a variant whose id is made from the chunk's position in its document
VectorRecordByChunkId(chunk) ==
    [id |-> <<"chunk_", Md5([i \in 1..(chunk.chunk_id + 1) |-> "1"])>>,
     values |-> chunk.embedding,
     metadata |-> [chunk_text |-> chunk.chunk_text,
                   chunk_id |-> chunk.chunk_id,
                   char_count |-> IF "char_count" \in DOMAIN chunk
                                  THEN chunk.char_count ELSE 0]]

VectorRecord(chunk) ==
    [id |-> <<"chunk_", Md5(chunk.chunk_text)>>,
     values |-> chunk.embedding,
     metadata |-> [chunk_text |-> chunk.chunk_text,
                   chunk_id |-> chunk.chunk_id,
                   char_count |-> IF "char_count" \in DOMAIN chunk
                                  THEN chunk.char_count ELSE 0]]

UpsertLoopInit ==
    [vectors_to_upsert |-> <<>>, uploaded_count |-> 0, calls |-> <<>>]

\* a variant that drops the records of a call that raised
UpsertBatchDropping(st, failing) ==
    [vectors_to_upsert |-> <<>>,
     uploaded_count |-> IF (Len(st.calls) + 1) \in failing
                        THEN st.uploaded_count
                        ELSE st.uploaded_count + Len(st.vectors_to_upsert),
     calls |-> Append(st.calls, [vectors |-> st.vectors_to_upsert,
                                 ok |-> (Len(st.calls) + 1) \notin failing])]

\* a variant that counts the records of a call that raised
UpsertBatchCountingFailed(st, failing) ==
    [vectors_to_upsert |-> IF (Len(st.calls) + 1) \in failing
                           THEN st.vectors_to_upsert ELSE <<>>,
     uploaded_count |-> st.uploaded_count + Len(st.vectors_to_upsert),
     calls |-> Append(st.calls, [vectors |-> st.vectors_to_upsert,
                                 ok |-> (Len(st.calls) + 1) \notin failing])]

\* index.upsert(vectors=vectors_to_upsert) inside the try of lines 344-350;
\* failing is the set of upsert calls (by number) that raise
UpsertBatch(st, failing) ==
    IF (Len(st.calls) + 1) \in failing
    THEN [st EXCEPT !.calls = Append(st.calls, [vectors |-> st.vectors_to_upsert, ok |-> FALSE])]
    ELSE [vectors_to_upsert |-> <<>>,
          uploaded_count |-> st.uploaded_count + Len(st.vectors_to_upsert),
          calls |-> Append(st.calls, [vectors |-> st.vectors_to_upsert, ok |-> TRUE])]

\* one iteration of the loop, lines 326-350
UpsertChunk(st, chunk, batch_size, failing) ==
    IF "embedding" \notin DOMAIN chunk THEN st
    ELSE LET st2 == [st EXCEPT !.vectors_to_upsert = Append(@, VectorRecord(chunk))]
         IN  IF Len(st2.vectors_to_upsert) >= batch_size
             THEN UpsertBatch(st2, failing)
             ELSE st2

RECURSIVE UpsertLoop(_, _, _, _)
UpsertLoop(st, cs, batch_size, failing) ==
    IF cs = <<>> THEN st
    ELSE UpsertLoop(UpsertChunk(st, Head(cs), batch_size, failing),
                    Tail(cs), batch_size, failing)

\* lines 323-361: the summary, or the exception of the last upsert call,
\* which is outside any try
async_upsert_to_pinecone(cs, batch_size, failing) ==
    LET st == UpsertLoop(UpsertLoopInit, cs, batch_size, failing)
        last == UpsertBatch(st, failing)
        fin == IF st.vectors_to_upsert # <<>> THEN last ELSE st
    IN  IF st.vectors_to_upsert # <<>> /\ ~last.calls[Len(last.calls)].ok
        THEN [ok |-> FALSE, calls |-> fin.calls,
              exc |-> Exc("PineconeException", <<"upsert failed">>)]
        ELSE [ok |-> TRUE, calls |-> fin.calls,
              summary |-> [total_chunks |-> Len(cs),
                           uploaded_chunks |-> fin.uploaded_count,
                           status |-> IF fin.uploaded_count = Len(cs)
                                      THEN "success" ELSE "partial"]]

\* index.upsert(vectors=...) on the index: a record replaces the record
\* with the same id; of two records with one id in a call the later stays
UpsertInto(index, vectors) ==
    [id \in DOMAIN index \cup {vectors[j].id : j \in 1..Len(vectors)} |->
        IF \E j \in 1..Len(vectors) : vectors[j].id = id
        THEN vectors[CHOOSE j \in 1..Len(vectors) :
                        /\ vectors[j].id = id
                        /\ \A l \in 1..Len(vectors) : vectors[l].id = id => l <= j]
        ELSE index[id]]

\* the index after the upsert calls that did not raise
RECURSIVE ApplyCalls(_, _)
ApplyCalls(index, calls) ==
    IF calls = <<>> THEN index
    ELSE ApplyCalls(IF Head(calls).ok THEN UpsertInto(index, Head(calls).vectors)
                    ELSE index,
                    Tail(calls))

\* lines 297-361 seen from the index p: the check of PINECONE_API_KEY,
\* lines 317-319, then the upsert calls; uploads records each call of
\* async_upsert_to_pinecone with its arguments, its upsert calls and its
\* return value or exception
UploadCall(p, cs, batch_size, failing, api_key) ==
    IF ~api_key
    THEN [p EXCEPT !.uploads =
             Append(@, [chunks |-> cs, batch_size |-> batch_size, calls |-> <<>>,
                        ok |-> FALSE,
                        exc |-> Exc("ValueError", <<"PINECONE_API_KEY not set">>)])]
    ELSE LET r == async_upsert_to_pinecone(cs, batch_size, failing)
         IN  [index |-> ApplyCalls(p.index, r.calls),
              uploads |-> Append(p.uploads,
                  IF r.ok
                  THEN [chunks |-> cs, batch_size |-> batch_size, calls |-> r.calls,
                        ok |-> TRUE, summary |-> r.summary]
                  ELSE [chunks |-> cs, batch_size |-> batch_size, calls |-> r.calls,
                        ok |-> FALSE, exc |-> r.exc])]

\* an index without records, and no call made
PineconeInit == [index |-> <<>>, uploads |-> <<>>]

-----------------------------------------------------------------------------
(* fast_process_large_document *)

PipelineMaxChunkChars == 2000
PipelineTopK == 15

Stages == <<"parsing", "chunking", "selection", "embedding", "upload">>

\* the classes caught by "except Exception", line 507
ExceptionClasses ==
    {"Exception", "ZeroDivisionError", "ValueError", "OSError", "RuntimeError",
     "PineconeException"}

\* mutant: a handler that catches ValueError only
CaughtOnlyValueError(exc) == exc.type = "ValueError"

CaughtByHandler(exc) == exc.type \in ExceptionClasses

\* lines 395-399
StatsInit == [status |-> "processing", steps |-> <<>>]

\* stats["steps"][name] = entry
AddStep(st, name, entry) == [st EXCEPT !.steps = SetField(@, name, entry)]

\* mutant: the handler also records an entry for the stage that failed
RaiseRecordingStage(exc) ==
    /\ raised' = [type |-> exc.type, msg |-> exc.msg, at |-> pc]
    /\ pc' = "done"
    /\ stats' = SetField(SetField(AddStep(stats, pc, [failed |-> TRUE]),
                                  "status", "error"), "error", exc.msg)
    /\ outcome' = "returned"

\* an exception raised inside the try block: lines 507-511, or it leaves
\* the function
Raise(exc) ==
    /\ raised' = [type |-> exc.type, msg |-> exc.msg, at |-> pc]
    /\ pc' = "done"
    /\ IF CaughtByHandler(exc)
       THEN /\ stats' = SetField(SetField(stats, "status", "error"), "error", exc.msg)
            /\ outcome' = "returned"
       ELSE /\ stats' = stats
            /\ outcome' = "propagated"

\* a Python value is truthy: not None and not empty
Truthy(v) == v # None /\ v # <<>>

\* the list the references denote
Deref(cs, refs) == [j \in 1..Len(refs) |-> cs[refs[j]]]

\* STEP 1, lines 403-417
Parsing ==
    /\ pc = "parsing"
    /\ LET r == IF Truthy(file_source.file_path)
                THEN stream_pdf_pages(doc, stream.batch_size)
                ELSE IF Truthy(file_source.file_content)
                THEN stream_upload_file(doc, stream.batch_size)
                ELSE [ok |-> TRUE, batches |-> <<>>]
       IN  /\ all_texts' = Flatten(r.batches)
           /\ stream' = [stream EXCEPT !.batches = r.batches, !.raised = ~r.ok]
           /\ IF r.ok
              THEN /\ stats' = AddStep(stats, "parsing", [pages |-> Len(all_texts')])
                   /\ pc' = "chunking"
                   /\ UNCHANGED <<outcome, raised>>
              ELSE Raise(r.exc)
    /\ UNCHANGED <<processing_jobs, request, batch_upload, processor,
                   file_source, doc, query, max_chunk_chars, chunks, top_k,
                   selected_chunks, embedder, pinecone>>

\* STEP 2, lines 421-429
Chunking ==
    /\ pc = "chunking"
    /\ chunks' = intelligent_chunk_split(all_texts, max_chunk_chars)
    /\ stats' = AddStep(stats, "chunking", [total_chunks |-> Len(chunks')])
    /\ pc' = "selection"
    /\ UNCHANGED <<processing_jobs, request, batch_upload, processor,
                   file_source, doc, query, all_texts, max_chunk_chars, top_k,
                   selected_chunks, outcome, raised, stream, embedder, pinecone>>

\* STEP 3, lines 433-448.  reduction is kept as the pair (numerator,
\* denominator) of the ratio the code formats.
Selection ==
    /\ pc = "selection"
    /\ LET keywords == SplitWhitespace(Lower(query))
           sel == IF Truthy(query)
                  THEN select_most_relevant_chunks(chunks, keywords, top_k)
                  ELSE NoQuerySelection(chunks)
           cs == IF Truthy(query) THEN ScoreChunks(chunks, keywords) ELSE chunks
       IN  /\ chunks' = cs
           /\ selected_chunks' = sel
           /\ IF Len(chunks) = 0
              THEN Raise(Exc("ZeroDivisionError", <<"division by zero">>))
              ELSE /\ stats' = AddStep(stats, "selection",
                                   [selected_chunks |-> Len(sel),
                                    reduction |-> <<Len(chunks) - Len(sel), Len(chunks)>>])
                   /\ pc' = "embedding"
                   /\ UNCHANGED <<outcome, raised>>
    /\ UNCHANGED <<processing_jobs, request, batch_upload, processor,
                   file_source, doc, query, all_texts, max_chunk_chars, top_k,
                   stream, embedder, pinecone>>

\* embed_chunks_parallel, lines 222-228: chunk["embedding"] = embedding for
\* the chunks the references denote
EmbedChunks(cs, refs, embeddings) ==
    [i \in 1..Len(cs) |->
        IF \E j \in 1..Len(refs) : refs[j] = i
        THEN SetField(cs[i], "embedding",
                      embeddings[CHOOSE j \in 1..Len(refs) :
                                    /\ refs[j] = i
                                    /\ \A l \in 1..Len(refs) : refs[l] = i => l <= j])
        ELSE cs[i]]

\* STEP 4, lines 452-464, with a new FastEmbedder; load_model or
\* model.encode may raise
Embedding ==
    /\ pc = "embedding"
    /\ LET texts == [j \in 1..Len(selected_chunks) |-> chunks[selected_chunks[j]].chunk_text]
       IN  \E failure \in EmbedFailures :
               /\ CanFail(EmbedderInit, texts, failure)
               /\ embedder' = EmbedBatchCall(EmbedderInit, texts, failure)
               /\ IF failure = "load_model"
                  THEN Raise(Exc("OSError", <<"cannot load model">>)) /\ UNCHANGED chunks
                  ELSE IF failure = "encode"
                  THEN Raise(Exc("RuntimeError", <<"encode failed">>)) /\ UNCHANGED chunks
                  ELSE /\ chunks' = EmbedChunks(chunks, selected_chunks,
                                                embedder'.calls[1].result)
                       /\ stats' = AddStep(stats, "embedding",
                               [chunks_embedded |-> Len(selected_chunks),
                                cache_stats |-> [cached_embeddings |->
                                    Cardinality(DOMAIN embedder'.embedding_cache)]])
                       /\ pc' = "upload"
                       /\ UNCHANGED <<outcome, raised>>
    /\ UNCHANGED <<processing_jobs, request, batch_upload, processor,
                   file_source, doc, query, all_texts, max_chunk_chars, top_k,
                   selected_chunks, stream, pinecone>>

\* STEP 5, lines 468-476; embedded_chunks is the list selected_chunks
Upload ==
    /\ pc = "upload"
    /\ \E api_key \in BOOLEAN, failing \in SUBSET {1} :
           LET p == UploadCall(pinecone, Deref(chunks, selected_chunks),
                               UploadBatchSize, failing, api_key)
               r == p.uploads[Len(p.uploads)]
           IN  /\ pinecone' = p
               /\ IF ~r.ok
                  THEN Raise(r.exc)
                  ELSE /\ stats' = AddStep(stats, "upload", r.summary)
                       /\ pc' = "complete"
                       /\ UNCHANGED <<outcome, raised>>
    /\ UNCHANGED <<processing_jobs, request, batch_upload, processor,
                   file_source, doc, query, all_texts, max_chunk_chars, chunks, top_k,
                   selected_chunks, stream, embedder>>

\* elapsed time of the run: zero or positive
TotalTimes == {0, 1}

\* lines 480-482
Complete ==
    /\ pc = "complete"
    /\ \E total_time \in TotalTimes :
           stats' = SetField(SetField(stats, "total_time", total_time),
                             "status", "completed")
    /\ pc' = "metrics"
    /\ UNCHANGED <<processing_jobs, request, batch_upload, processor,
                   file_source, doc, query, all_texts, max_chunk_chars, chunks, top_k,
                   selected_chunks, outcome, raised, stream, embedder, pinecone>>

\* lines 485-505; the ratios are kept as pairs (numerator, denominator)
Metrics ==
    /\ pc = "metrics"
    /\ IF Len(chunks) = 0
       THEN Raise(Exc("ZeroDivisionError", <<"division by zero">>))
       ELSE IF Len(all_texts) = 0 \/ stats.total_time = 0
       THEN Raise(Exc("ZeroDivisionError", <<"float division by zero">>))
       ELSE /\ stats' = SetField(stats, "metrics",
                   [documents_processed |-> 1,
                    total_pages |-> Len(all_texts),
                    total_chunks_created |-> Len(chunks),
                    chunks_uploaded |-> Len(selected_chunks),
                    embedding_reduction |-> <<Len(chunks) - Len(selected_chunks), Len(chunks)>>,
                    time_per_page |-> <<stats.total_time, Len(all_texts)>>,
                    throughput |-> <<Len(all_texts), stats.total_time>>])
            /\ pc' = "done"
            /\ outcome' = "returned"
            /\ UNCHANGED raised
    /\ UNCHANGED <<processing_jobs, request, batch_upload, processor,
                   file_source, doc, query, all_texts, max_chunk_chars, chunks, top_k,
                   selected_chunks, stream, embedder, pinecone>>

-----------------------------------------------------------------------------
(* api_fast_uploads: the job table and the two upload endpoints *)

\* what a call of fast_process_large_document returns to the endpoints:
\* the stats of a completed run (line 505) or of a run that ended in the
\* handler (lines 507-511)
PipelineResults ==
    {[status |-> "completed"],
     [status |-> "error", error |-> <<"division by zero">>]}

\* str(uuid.uuid4())[:8], lines 74 and 210: an id no job has yet
NewJobId(jobs) == Cardinality(DOMAIN jobs) + 1

\* processing_jobs[job_id].update(fields) / processing_jobs[job_id][k] = v
UpdateJob(jobs, job_id, fields) == [jobs EXCEPT ![job_id] = fields @@ @]

\* no request is being served
RequestIdle ==
    [pc |-> "idle", content_type_ok |-> TRUE, query |-> None, job_id |-> 0,
     response |-> "none", read_raised |-> FALSE]

\* no batch_upload is being served
BatchIdle ==
    [pc |-> "idle", max_concurrent |-> 0, semaphore |-> 0, files |-> <<>>,
     file_jobs |-> <<>>, job_ids |-> <<>>]

\* the variables of the document pipeline and its components
pipelineVars ==
    <<pc, file_source, doc, query, all_texts, max_chunk_chars, chunks, top_k,
      selected_chunks, stats, outcome, raised, stream, embedder, pinecone>>

\* a variant that reports the job under the status of the returned stats
StoreResultByStatus(result) ==
    [status |-> result.status, processing_stats |-> result]

\* the fields written once fast_process_large_document has returned,
\* lines 100-104 and 227-230
StoreResult(result) ==
    [status |-> "completed", processing_stats |-> result]

\* fast_upload_and_analyze, lines 66-133: the content type is validated,
\* the job is created as "queued", the background task is queued and the
\* response is returned
Receive ==
    /\ request.pc = "received"
    /\ IF ~request.content_type_ok
       THEN /\ request' = [request EXCEPT !.pc = "rejected", !.response = "400"]
            /\ UNCHANGED processing_jobs
       ELSE LET job_id == NewJobId(processing_jobs)
            IN  /\ processing_jobs' =
                       SetField(processing_jobs, job_id,
                                [status |-> "queued",
                                 query |-> IF Truthy(request.query) THEN request.query
                                           ELSE <<"General analysis">>,
                                 progress |-> 0,
                                 steps |-> <<>>])
                /\ request' = [request EXCEPT !.pc = "queued", !.job_id = job_id,
                                              !.response = "queued"]
    /\ UNCHANGED <<pipelineVars, batch_upload, processor>>

\* process_in_background, lines 87-92, up to await file.read()
BackgroundStart ==
    /\ request.pc = "queued"
    /\ processing_jobs' = UpdateJob(processing_jobs, request.job_id,
                                    [status |-> "processing"])
    /\ request' = [request EXCEPT !.pc = "reading"]
    /\ UNCHANGED <<pipelineVars, batch_upload, processor>>

\* file.read() returns, or raises into the handler of lines 117-119
BackgroundRead ==
    /\ request.pc = "reading"
    /\ \E ok \in BOOLEAN :
           IF ok
           THEN /\ request' = [request EXCEPT !.pc = "processing"]
                /\ UNCHANGED processing_jobs
           ELSE /\ processing_jobs' =
                       UpdateJob(processing_jobs, request.job_id,
                                 [status |-> "error", error |-> <<"read failed">>])
                /\ request' = [request EXCEPT !.pc = "finished", !.read_raised = TRUE]
    /\ UNCHANGED <<pipelineVars, batch_upload, processor>>

\* lines 95-105: the pipeline is awaited and its result stored
BackgroundProcess ==
    /\ request.pc = "processing"
    /\ \E result \in PipelineResults :
           processing_jobs' = UpdateJob(processing_jobs, request.job_id,
                                        StoreResult(result))
    /\ request' = [request EXCEPT !.pc = "stored"]
    /\ UNCHANGED <<pipelineVars, batch_upload, processor>>

\* lines 108-110: with a query the job goes to "analyzing" and run(query)
\* is awaited in a thread
BackgroundAnalyze ==
    /\ request.pc = "stored"
    /\ IF Truthy(request.query)
       THEN /\ processing_jobs' = UpdateJob(processing_jobs, request.job_id,
                                            [status |-> "analyzing"])
            /\ request' = [request EXCEPT !.pc = "analyzing"]
       ELSE /\ request' = [request EXCEPT !.pc = "finished"]
            /\ UNCHANGED processing_jobs
    /\ UNCHANGED <<pipelineVars, batch_upload, processor>>

\* lines 110-115: run(query) returns or raises; the job is "completed"
BackgroundAnalysisDone ==
    /\ request.pc = "analyzing"
    /\ \E ok \in BOOLEAN :
           processing_jobs' =
               UpdateJob(processing_jobs, request.job_id,
                         IF ok
                         THEN [status |-> "completed", analysis |-> <<"report">>]
                         ELSE [status |-> "completed",
                               analysis_error |-> <<"run failed">>])
    /\ request' = [request EXCEPT !.pc = "finished"]
    /\ UNCHANGED <<pipelineVars, batch_upload, processor>>

\* a variant of the semaphore that admits every task
CanAcquireAlways(value) == TRUE

\* asyncio.Semaphore.acquire, "async with semaphore", line 209: the task
\* goes on only while the value is positive
CanAcquire(value) == value > 0

\* fast_batch_upload, lines 202-207: the semaphore is created
BatchStart ==
    /\ batch_upload.pc = "received"
    /\ batch_upload' = [batch_upload EXCEPT !.pc = "running", !.semaphore = batch_upload.max_concurrent]
    /\ UNCHANGED <<pipelineVars, processing_jobs, request, processor>>

\* upload_file, lines 209-221: the semaphore is acquired, the job is
\* registered as "queued" and file.read() is awaited
Admit(i) ==
    /\ batch_upload.pc \in {"running", "raised"}
    /\ batch_upload.files[i] = "waiting"
    /\ CanAcquire(batch_upload.semaphore)
    /\ LET job_id == NewJobId(processing_jobs)
       IN  /\ processing_jobs' = SetField(processing_jobs, job_id,
                                          [batch_id |-> "batch", status |-> "queued",
                                           file_name |-> i])
           /\ batch_upload' = [batch_upload EXCEPT !.semaphore = @ - 1,
                                     !.files[i] = "reading",
                                     !.file_jobs[i] = job_id,
                                     !.job_ids = Append(@, job_id)]
    /\ UNCHANGED <<pipelineVars, request, processor>>

\* line 221: file.read() returns, or raises; it is outside the try of
\* line 223, so the exception leaves upload_file and releases the semaphore
ReadFile(i) ==
    /\ batch_upload.pc \in {"running", "raised"}
    /\ batch_upload.files[i] = "reading"
    /\ \E ok \in BOOLEAN :
           batch_upload' = IF ok
                    THEN [batch_upload EXCEPT !.files[i] = "processing"]
                    ELSE [batch_upload EXCEPT !.files[i] = "raised", !.semaphore = @ + 1]
    /\ UNCHANGED <<pipelineVars, processing_jobs, request, processor>>

\* lines 223-233: the pipeline is awaited, its result stored and the
\* semaphore released
ProcessFile(i) ==
    /\ batch_upload.pc \in {"running", "raised"}
    /\ batch_upload.files[i] = "processing"
    /\ \E result \in PipelineResults :
           processing_jobs' = UpdateJob(processing_jobs, batch_upload.file_jobs[i],
                                        StoreResult(result))
    /\ batch_upload' = [batch_upload EXCEPT !.files[i] = "done", !.semaphore = @ + 1]
    /\ UNCHANGED <<pipelineVars, request, processor>>

\* line 236: asyncio.gather raises as soon as an upload_file task has
\* raised; the other tasks go on
GatherRaises ==
    /\ batch_upload.pc = "running"
    /\ \E i \in 1..Len(batch_upload.files) : batch_upload.files[i] = "raised"
    /\ batch_upload' = [batch_upload EXCEPT !.pc = "raised"]
    /\ UNCHANGED <<pipelineVars, processing_jobs, request, processor>>

\* lines 236-245: every upload_file task has returned; the response is
\* returned
Respond ==
    /\ batch_upload.pc = "running"
    /\ \A i \in 1..Len(batch_upload.files) : batch_upload.files[i] = "done"
    /\ batch_upload' = [batch_upload EXCEPT !.pc = "returned"]
    /\ UNCHANGED <<pipelineVars, processing_jobs, request, processor>>

-----------------------------------------------------------------------------
(* ParallelProcessor *)

\* a state dict, by its set of keys, and the value None
Dict(keys) == [is_dict |-> TRUE, keys |-> keys]
NoneValue == [is_dict |-> FALSE, keys |-> {}]

\* what an agent function does with the state it is given: it sets a key
\* and returns the state, it returns None, or it raises
AgentBehaviours == {"returns_state", "returns_none", "raises"}

\* agent_func(state), line 44; setting a key of None raises TypeError
CallAgent(agent, state) ==
    CASE agent.behaviour = "raises" -> [raised |-> TRUE, value |-> NoneValue]
      [] agent.behaviour = "returns_none" -> [raised |-> FALSE, value |-> NoneValue]
      [] OTHER -> IF state.is_dict
                  THEN [raised |-> FALSE, value |-> Dict(state.keys \cup {"test"})]
                  ELSE [raised |-> TRUE, value |-> NoneValue]

\* a variant that times only the agents that return
execute_agent_async_untimed_failure(times, agent, state, elapsed) ==
    LET r == CallAgent(agent, state)
    IN  IF ~r.raised
        THEN [execution_times |-> SetField(times, agent.name, elapsed),
              result |-> r.value]
        ELSE [execution_times |-> times, result |-> Dict({"error"})]

\* ParallelProcessor.execute_agent_async, lines 42-50
execute_agent_async(times, agent, state, elapsed) ==
    LET r == CallAgent(agent, state)
    IN  IF ~r.raised
        THEN [execution_times |-> SetField(times, agent.name, elapsed),
              result |-> r.value]
        ELSE [execution_times |-> SetField(times, agent.name, elapsed),
              result |-> Dict({"error"})]

\* for agent_name, result in results: state.update(result), lines 92-93;
\* dict.update(None) raises TypeError
RECURSIVE UpdateAll(_, _)
UpdateAll(state, results) ==
    IF results = <<>> THEN [raised |-> FALSE, state |-> state]
    ELSE IF ~Head(results).is_dict THEN [raised |-> TRUE, state |-> state]
    ELSE UpdateAll(Dict(state.keys \cup Head(results).keys), Tail(results))

\* ParallelProcessor.__init__, lines 25-26; no call of run_blocking yet
ProcessorIdle ==
    [pc |-> "idle", use_parallel |-> FALSE, agents |-> <<>>, next |-> 0,
     execution_times |-> <<>>, state |-> Dict({}), results |-> <<>>]

\* the elapsed times a clock of whole ticks can show
ElapsedTimes == {0, 1}

\* run_blocking, lines 111-117: the event loop is created and run_parallel
\* or run_sequential is started
RunBlocking ==
    /\ processor.pc = "called"
    /\ processor' = [processor EXCEPT !.pc = "running"]
    /\ UNCHANGED <<pipelineVars, processing_jobs, request, batch_upload>>

\* one call of execute_agent_async: the body of the loop of lines 65-66, or
\* the next coroutine run by gather, line 90.  The coroutines have no await
\* inside, so gather runs them one after the other in list order; each is
\* given the same state dict, which an agent may change in place.
ExecuteAgent ==
    /\ processor.pc = "running"
    /\ processor.next < Len(processor.agents)
    /\ \E elapsed \in ElapsedTimes :
           LET agent == processor.agents[processor.next + 1]
               r == execute_agent_async(processor.execution_times, agent,
                                        processor.state, elapsed)
           IN  processor' =
                   [processor EXCEPT
                       !.next = @ + 1,
                       !.execution_times = r.execution_times,
                       !.state = IF processor.use_parallel
                                 THEN IF CallAgent(agent, processor.state).raised
                                         \/ ~r.result.is_dict
                                      THEN @ ELSE r.result
                                 ELSE r.result,
                       !.results = IF processor.use_parallel
                                   THEN Append(@, r.result) ELSE @]
    /\ UNCHANGED <<pipelineVars, processing_jobs, request, batch_upload>>

\* run_sequential returns the state, line 67; run_blocking closes the loop
\* and returns it, lines 117-119
SequentialReturn ==
    /\ processor.pc = "running"
    /\ ~processor.use_parallel
    /\ processor.next = Len(processor.agents)
    /\ processor' = [processor EXCEPT !.pc = "returned"]
    /\ UNCHANGED <<pipelineVars, processing_jobs, request, batch_upload>>

\* run_parallel merges the results into the state and returns it, lines
\* 92-95, or the TypeError of state.update leaves run_blocking, which
\* closes the loop, lines 115-119
ParallelReturn ==
    /\ processor.pc = "running"
    /\ processor.use_parallel
    /\ processor.next = Len(processor.agents)
    /\ LET u == UpdateAll(processor.state, processor.results)
       IN  processor' = [processor EXCEPT
                            !.pc = IF u.raised THEN "raised" ELSE "returned",
                            !.state = u.state]
    /\ UNCHANGED <<pipelineVars, processing_jobs, request, batch_upload>>

-----------------------------------------------------------------------------
(* Inputs *)

Text_xyz == <<"x", "y", "z">>
Text_pay == <<"p", "a", "y">>
Text_Terms == <<"T", "e", "r", "m", "s">>
Text_Risk == <<"R", "i", "s", "k">>

Query_pay == <<"p", "a", "y">>
Query_PAY_xyz == <<"P", "A", "Y", " ", "x", "y", "z">>

Queries == {None, <<>>, <<" ">>, Query_pay, Query_PAY_xyz}

SeqsUpTo(S, n) == UNION {[1..k -> S] : k \in 0..n}

NoException == [type |-> "none", msg |-> <<>>, at |-> "none"]

SomePath == <<"c", ".", "p", "d", "f">>
SomeBytes == <<"%", "P", "D", "F">>

\* the whole pipeline on small documents
MaxDocPages == 2

DocPages == {<<>>, Text_pay, Text_Terms, ExtractError}

Docs == [openable : BOOLEAN, pages : SeqsUpTo(DocPages, MaxDocPages)]

Init ==
    /\ pc = "parsing"
    /\ file_source \in [file_path : {None, SomePath}, file_content : {None, <<>>, SomeBytes}]
    /\ doc \in Docs
    /\ query \in Queries
    /\ all_texts = <<>>
    /\ max_chunk_chars = PipelineMaxChunkChars
    /\ chunks = <<>>
    /\ top_k = PipelineTopK
    /\ selected_chunks = <<>>
    /\ stats = StatsInit
    /\ outcome = "running"
    /\ raised = NoException
    /\ stream = StreamInit(StreamBatchSize)
    /\ embedder = EmbedderInit
    /\ pinecone = PineconeInit
    /\ processing_jobs = <<>>
    /\ request = RequestIdle
    /\ batch_upload = BatchIdle
    /\ processor = ProcessorIdle

Next ==
    \/ Parsing
    \/ Chunking
    \/ Selection
    \/ Embedding
    \/ Upload
    \/ Complete
    \/ Metrics

Spec == Init /\ [][Next]_vars

-----------------------------------------------------------------------------
(* The chunking stage alone, on every list of short pages and small budgets *)

MaxPages == 2
MaxPageLen == 3
MaxBudget == 4

PageAlphabet == {"a", NL}

PageStrings == SeqsUpTo(PageAlphabet, MaxPageLen)

\* the state in which STEP 2 starts once STEP 1 has parsed texts
AfterParsing(texts, budget, q, k) ==
    /\ pc = "chunking"
    /\ file_source = [file_path |-> SomePath, file_content |-> None]
    /\ doc = [openable |-> TRUE, pages |-> texts]
    /\ query = q
    /\ all_texts = texts
    /\ max_chunk_chars = budget
    /\ chunks = <<>>
    /\ top_k = k
    /\ selected_chunks = <<>>
    /\ stats = AddStep(StatsInit, "parsing", [pages |-> Len(texts)])
    /\ outcome = "running"
    /\ raised = NoException
    /\ stream = StreamInit(StreamBatchSize)
    /\ embedder = EmbedderInit
    /\ pinecone = PineconeInit
    /\ processing_jobs = <<>>
    /\ request = RequestIdle
    /\ batch_upload = BatchIdle
    /\ processor = ProcessorIdle

\* the state in which STEP 3 starts once STEP 2 has chunked pages that are
\* one section each, none of which fits the budget together with another
AfterChunking(texts, budget, q, k) ==
    /\ pc = "selection"
    /\ file_source = [file_path |-> SomePath, file_content |-> None]
    /\ doc = [openable |-> TRUE, pages |-> texts]
    /\ query = q
    /\ all_texts = texts
    /\ max_chunk_chars = budget
    /\ chunks = [i \in 1..Len(texts) |-> Chunk(i - 1, texts[i], Len(texts[i]))]
    /\ top_k = k
    /\ selected_chunks = <<>>
    /\ stats = AddStep(AddStep(StatsInit, "parsing", [pages |-> Len(texts)]),
                       "chunking", [total_chunks |-> Len(texts)])
    /\ outcome = "running"
    /\ raised = NoException
    /\ stream = StreamInit(StreamBatchSize)
    /\ embedder = EmbedderInit
    /\ pinecone = PineconeInit
    /\ processing_jobs = <<>>
    /\ request = RequestIdle
    /\ batch_upload = BatchIdle
    /\ processor = ProcessorIdle

InitChunk ==
    \E texts \in SeqsUpTo(PageStrings, MaxPages), budget \in 1..MaxBudget :
        AfterParsing(texts, budget, None, PipelineTopK)

NextChunk == Chunking

SpecChunk == InitChunk /\ [][NextChunk]_vars

-----------------------------------------------------------------------------
(* The chunking and selection stages on documents whose every page becomes *)
(* a chunk of its own (budget 0): short texts stand for sections too long  *)
(* to be joined.                                                           *)

MaxSelChunks == 4
MaxNoQueryChunks == 100
MaxTopK == 3

SelTexts == {Text_xyz, Text_pay, Text_Terms, Text_Risk}

MaxScoreChunks == 3

Text_Payment_Penalty ==
    <<"P","a","y","m","e","n","t"," ","P","e","n","a","l","t","y">>
Query_payment_PENALTY ==
    <<"p","a","y","m","e","n","t"," ","P","E","N","A","L","T","Y">>

ScoreTexts == {Text_xyz, Text_Terms, Text_Payment_Penalty}

\* every query on the short documents, a two-keyword query on documents
\* with a chunk that holds both keywords, the falsy queries on the long ones
InitSelect ==
    \/ \E texts \in SeqsUpTo(SelTexts, MaxSelChunks), q \in Queries, k \in 0..MaxTopK :
           AfterParsing(texts, 0, q, k)
    \/ \E texts \in SeqsUpTo(ScoreTexts, MaxScoreChunks) :
           AfterParsing(texts, 0, Query_payment_PENALTY, PipelineTopK)
    \/ \E n \in 0..MaxNoQueryChunks, q \in {None, <<>>} :
           AfterChunking([i \in 1..n |-> Text_xyz], 0, q, PipelineTopK)

NextSelect ==
    \/ Chunking
    \/ Selection

SpecSelect == InitSelect /\ [][NextSelect]_vars

-----------------------------------------------------------------------------
(* The two page generators alone, drained by a for loop, on every short    *)
(* document and small batch size                                           *)

MaxStreamPages == 5
MaxStreamBatch == 3

\* the state in which a component is exercised on its own: no pipeline run
\* has started
Standalone(position, src, d, st, e, p) ==
    /\ pc = position
    /\ file_source = src
    /\ doc = d
    /\ query = None
    /\ all_texts = <<>>
    /\ max_chunk_chars = PipelineMaxChunkChars
    /\ chunks = <<>>
    /\ top_k = PipelineTopK
    /\ selected_chunks = <<>>
    /\ stats = StatsInit
    /\ outcome = "running"
    /\ raised = NoException
    /\ stream = st
    /\ embedder = e
    /\ pinecone = p
    /\ processing_jobs = <<>>
    /\ request = RequestIdle
    /\ batch_upload = BatchIdle
    /\ processor = ProcessorIdle

NoDoc == [openable |-> TRUE, pages |-> <<>>]
NoSource == [file_path |-> None, file_content |-> None]

\* for batch in stream_pdf_pages(file_path, batch_size), lines 23-49
StreamPdfPages ==
    /\ pc = "stream"
    /\ Truthy(file_source.file_path)
    /\ LET r == stream_pdf_pages(doc, stream.batch_size)
       IN  stream' = [stream EXCEPT !.batches = r.batches, !.raised = ~r.ok]
    /\ pc' = "streamed"
    /\ UNCHANGED <<processing_jobs, request, batch_upload, processor,
                   file_source, doc, query, all_texts, max_chunk_chars, chunks, top_k,
                   selected_chunks, stats, outcome, raised, embedder, pinecone>>

\* for batch in stream_upload_file(file_content, batch_size), lines 52-78
StreamUploadFile ==
    /\ pc = "stream"
    /\ Truthy(file_source.file_content)
    /\ LET r == stream_upload_file(doc, stream.batch_size)
       IN  stream' = [stream EXCEPT !.batches = r.batches, !.raised = ~r.ok]
    /\ pc' = "streamed"
    /\ UNCHANGED <<processing_jobs, request, batch_upload, processor,
                   file_source, doc, query, all_texts, max_chunk_chars, chunks, top_k,
                   selected_chunks, stats, outcome, raised, embedder, pinecone>>

InitStream ==
    \E src \in {[file_path |-> SomePath, file_content |-> None],
                [file_path |-> None, file_content |-> SomeBytes]},
       d \in [openable : BOOLEAN, pages : SeqsUpTo(DocPages, MaxStreamPages)],
       batch_size \in 1..MaxStreamBatch :
        Standalone("stream", src, d, StreamInit(batch_size), EmbedderInit, PineconeInit)

NextStream ==
    \/ StreamPdfPages
    \/ StreamUploadFile

SpecStream == InitStream /\ [][NextStream]_vars

-----------------------------------------------------------------------------
(* One FastEmbedder instance called several times, and the pipeline from   *)
(* the selection stage on, on documents whose every page becomes a chunk   *)

MaxEmbedTexts == 2
MaxEmbedCalls == 2

EmbedTexts == {Text_pay, Text_xyz}

\* embedder.embed_batch(texts), lines 159-208, on the one instance
EmbedBatch ==
    /\ pc = "embedder"
    /\ Len(embedder.calls) < MaxEmbedCalls
    /\ \E texts \in SeqsUpTo(EmbedTexts, MaxEmbedTexts), failure \in EmbedFailures :
           /\ CanFail(embedder, texts, failure)
           /\ embedder' = EmbedBatchCall(embedder, texts, failure)
    /\ UNCHANGED <<processing_jobs, request, batch_upload, processor,
                   pc, file_source, doc, query, all_texts, max_chunk_chars, chunks,
                   top_k, selected_chunks, stats, outcome, raised, stream, pinecone>>

InitEmbed ==
    \/ Standalone("embedder", NoSource, NoDoc, StreamInit(StreamBatchSize),
                  EmbedderInit, PineconeInit)
    \/ \E texts \in SeqsUpTo(EmbedTexts, MaxEmbedTexts) :
           AfterChunking(texts, 0, None, PipelineTopK)

NextEmbed ==
    \/ EmbedBatch
    \/ Selection
    \/ Embedding
    \/ Upload

SpecEmbed == InitEmbed /\ [][NextEmbed]_vars

-----------------------------------------------------------------------------
(* async_upsert_to_pinecone alone, on every short list of chunks with and  *)
(* without an embedding, small batch sizes and every choice of the upsert  *)
(* calls that raise                                                        *)

MaxUploadChunks == 5
MaxUploadBatch == 2
MaxFailingCall == 2

\* a chunk with an embedding, and one that was never embedded
ChunkKinds == {<<Text_pay, TRUE>>, <<Text_xyz, TRUE>>, <<Text_pay, FALSE>>}

\* the chunk list made of the kinds, with the chunk_ids of a document
CandidateChunks(kinds) ==
    [i \in 1..Len(kinds) |->
        LET chunk == Chunk(i - 1, kinds[i][1], Len(kinds[i][1]))
        IN  IF kinds[i][2]
            THEN SetField(chunk, "embedding", Encode(kinds[i][1], 1))
            ELSE chunk]

\* await async_upsert_to_pinecone(chunks, index_name, batch_size),
\* lines 297-361
Upsert ==
    /\ pc = "uploader"
    /\ \E kinds \in SeqsUpTo(ChunkKinds, MaxUploadChunks),
          batch_size \in 1..MaxUploadBatch,
          failing \in SUBSET (1..MaxFailingCall),
          api_key \in BOOLEAN :
           pinecone' = UploadCall(pinecone, CandidateChunks(kinds), batch_size,
                                  failing, api_key)
    /\ pc' = "uploaded"
    /\ UNCHANGED <<processing_jobs, request, batch_upload, processor,
                   file_source, doc, query, all_texts, max_chunk_chars, chunks, top_k,
                   selected_chunks, stats, outcome, raised, stream, embedder>>

InitUpload ==
    Standalone("uploader", NoSource, NoDoc, StreamInit(StreamBatchSize),
               EmbedderInit, PineconeInit)

NextUpload == Upsert

SpecUpload == InitUpload /\ [][NextUpload]_vars

-----------------------------------------------------------------------------
(* The upload API: one request to /fast-upload-analyze, or one request to  *)
(* /fast-batch-upload with a few files.  fast_process_large_document is    *)
(* the pipeline above; here only its return value matters, a stats dict    *)
(* with status "completed" or "error".                                     *)

MaxFiles == 3
MaxConcurrent == 2

\* the pipeline, the generators, the embedder and the uploader at rest
PipelineAtRest(position) ==
    /\ pc = position
    /\ file_source = NoSource
    /\ doc = NoDoc
    /\ query = None
    /\ all_texts = <<>>
    /\ max_chunk_chars = PipelineMaxChunkChars
    /\ chunks = <<>>
    /\ top_k = PipelineTopK
    /\ selected_chunks = <<>>
    /\ stats = StatsInit
    /\ outcome = "running"
    /\ raised = NoException
    /\ stream = StreamInit(StreamBatchSize)
    /\ embedder = EmbedderInit
    /\ pinecone = PineconeInit

\* the query parameter: absent, empty, or a query
ApiQueries == {None, <<>>, Query_payment_PENALTY}

InitApi ==
    /\ PipelineAtRest("api")
    /\ processing_jobs = <<>>
    /\ processor = ProcessorIdle
    /\ \/ /\ batch_upload = BatchIdle
          /\ \E ok \in BOOLEAN, q \in ApiQueries :
                 request = [RequestIdle EXCEPT !.pc = "received",
                                               !.content_type_ok = ok,
                                               !.query = q]
       \/ /\ request = RequestIdle
          /\ \E n \in 1..MaxFiles, m \in 1..MaxConcurrent :
                 batch_upload = [BatchIdle EXCEPT
                                    !.pc = "received",
                                    !.max_concurrent = m,
                                    !.files = [i \in 1..n |-> "waiting"],
                                    !.file_jobs = [i \in 1..n |-> 0]]

NextApi ==
    \/ Receive
    \/ BackgroundStart
    \/ BackgroundRead
    \/ BackgroundProcess
    \/ BackgroundAnalyze
    \/ BackgroundAnalysisDone
    \/ BatchStart
    \/ \E i \in 1..Len(batch_upload.files) : Admit(i)
    \/ \E i \in 1..Len(batch_upload.files) : ReadFile(i)
    \/ \E i \in 1..Len(batch_upload.files) : ProcessFile(i)
    \/ GatherRaises
    \/ Respond

SpecApi == InitApi /\ [][NextApi]_vars

-----------------------------------------------------------------------------
(* One ParallelProcessor and one call of run_blocking, on every short list *)
(* of agents and both modes                                                *)

MaxAgents == 3

AgentNames == {"DummyAgent", "Agent1"}

Agents == [name : AgentNames, behaviour : AgentBehaviours]

InitProcessor ==
    /\ PipelineAtRest("processor")
    /\ processing_jobs = <<>>
    /\ request = RequestIdle
    /\ batch_upload = BatchIdle
    /\ \E agents \in SeqsUpTo(Agents, MaxAgents), use_parallel \in BOOLEAN :
           processor = [ProcessorIdle EXCEPT !.pc = "called",
                                             !.agents = agents,
                                             !.use_parallel = use_parallel]

NextProcessor ==
    \/ RunBlocking
    \/ ExecuteAgent
    \/ SequentialReturn
    \/ ParallelReturn

SpecProcessor == InitProcessor /\ [][NextProcessor]_vars

-----------------------------------------------------------------------------
(* Properties of fast_process_large_document *)

Recorded == DOMAIN stats.steps

StagePrefix(k) == {Stages[i] : i \in 1..k}

\* C1: whichever stage raises, the run ends by returning stats with status
\* "error" and the exception's message in the error field; no exception
\* leaves the function.
C1_ErrorsAreReturned ==
    /\ outcome # "propagated"
    /\ raised # NoException =>
           /\ pc = "done"
           /\ outcome = "returned"
           /\ stats.status = "error"
           /\ "error" \in DOMAIN stats
           /\ stats.error = raised.msg

\* the upload stage raised after four stages were recorded
C1_Witness ==
    /\ raised.type = "PineconeException"
    /\ raised.at = "upload"
    /\ outcome = "returned"
    /\ stats.status = "error"

\* C2: a run whose document yields zero chunks ends with status "completed"
\* and all five stages recorded with counts 0.
C2_ZeroChunksCompleted ==
    (pc = "done" /\ "chunking" \in Recorded /\ stats.steps.chunking.total_chunks = 0) =>
        /\ stats.status = "completed"
        /\ Recorded = StagePrefix(5)
        /\ stats.steps.selection.selected_chunks = 0
        /\ stats.steps.embedding.chunks_embedded = 0
        /\ stats.steps.upload.uploaded_chunks = 0
        /\ "metrics" \in DOMAIN stats

\* C3: the recorded stage entries are a prefix of the five stages; the stage
\* about to run has exactly its predecessors recorded; a run with status
\* "error" has no entry for the stage that failed or a later one, and no
\* metrics; status "completed" has all five entries.
C3_StagesInOrder ==
    /\ \E k \in 0..5 : Recorded = StagePrefix(k)
    /\ \A i \in 1..5 : pc = Stages[i] => Recorded = StagePrefix(i - 1)
    /\ stats.status = "error" =>
           /\ "metrics" \notin DOMAIN stats
           /\ raised.at \in StagePrefix(5) \cup {"metrics"}
           /\ \A i \in 1..5 : raised.at = Stages[i] => Recorded = StagePrefix(i - 1)
    /\ stats.status = "completed" => Recorded = StagePrefix(5)

\* the embedding stage failed: three entries, no fourth
C3_Witness ==
    /\ stats.status = "error"
    /\ raised.at = "embedding"
    /\ Recorded = StagePrefix(3)

-----------------------------------------------------------------------------
(* Properties of intelligent_chunk_split *)

AfterChunkingStage == pc = "selection"

\* C4: every chunk has char_count <= max_chunk_chars unless it was formed
\* from a single section.
C4_ChunksWithinBudget ==
    AfterChunkingStage =>
        \A i \in 1..Len(chunks) :
            \/ chunks[i].char_count <= max_chunk_chars
            \/ ChunkRun(all_texts, max_chunk_chars).nsec[i] = 1

NonBlank(sections) == SelectSeq(sections, LAMBDA x : Strip(x) # <<>>)

Trimmed(sections) == [i \in 1..Len(sections) |-> Strip(sections[i])]

\* the sections of the pages, in page order
PageSections ==
    Flatten([i \in 1..Len(all_texts) |-> SplitOn(BlankLine, all_texts[i])])

\* the sections of the chunk texts, in chunk order
ChunkTextSections ==
    Flatten([i \in 1..Len(chunks) |-> SplitOn(BlankLine, chunks[i].chunk_text)])

\* C5 as stated: the non-blank sections of the pages are the non-blank
\* sections of the chunk texts.
C5_SectionsPreserved ==
    AfterChunkingStage => NonBlank(PageSections) = NonBlank(ChunkTextSections)

\* C5 as amended: the non-blank sections of the pages, each trimmed, are the
\* non-blank sections of the chunk texts, each trimmed: none is dropped,
\* duplicated, split or reordered.
C5_TrimmedSectionsPreserved ==
    AfterChunkingStage =>
        Trimmed(NonBlank(PageSections)) = Trimmed(NonBlank(ChunkTextSections))

\* two sections on two pages, two chunks, and an edge newline that is lost
C5_Witness ==
    /\ AfterChunkingStage
    /\ Len(chunks) = 2
    /\ Len(all_texts) = 2
    /\ Len(NonBlank(PageSections)) = 2
    /\ NonBlank(PageSections) # NonBlank(ChunkTextSections)

-----------------------------------------------------------------------------
(* Properties of the selection stage *)

QueryKeywords == SplitWhitespace(Lower(query))

AfterQuerySelection ==
    /\ Truthy(query)
    /\ pc = "embedding" \/ (pc = "done" /\ raised.at = "selection")

AfterNoQuerySelection ==
    /\ ~Truthy(query)
    /\ pc = "embedding"

\* positions of the chunks whose score is positive
Positive == {i \in 1..Len(chunks) : Score(chunks[i], QueryKeywords) > 0}

RanksAbove(i, j) ==
    \/ chunks[i].relevance_score > chunks[j].relevance_score
    \/ /\ chunks[i].relevance_score = chunks[j].relevance_score
       /\ chunks[i].chunk_id < chunks[j].chunk_id

\* C7: the returned list is in descending order of relevance_score, equal
\* scores in ascending chunk_id order, and no chunk cut off by the cap
\* ranks above a returned one.
C7_SelectionOrder ==
    AfterQuerySelection =>
        /\ \A a, b \in 1..Len(selected_chunks) :
               a < b => RanksAbove(selected_chunks[a], selected_chunks[b])
        /\ \A i \in Positive, a \in 1..Len(selected_chunks) :
               (\A b \in 1..Len(selected_chunks) : selected_chunks[b] # i)
                   => ~RanksAbove(i, selected_chunks[a])

\* two returned chunks tie, and a chunk tying with the last one is cut off
C7_Witness ==
    /\ AfterQuerySelection
    /\ Len(selected_chunks) = top_k
    /\ \E a, b \in 1..Len(selected_chunks) :
           /\ a < b
           /\ chunks[selected_chunks[a]].relevance_score
                 = chunks[selected_chunks[b]].relevance_score
    /\ \E i \in Positive :
           /\ \A b \in 1..Len(selected_chunks) : selected_chunks[b] # i
           /\ chunks[i].relevance_score
                 = chunks[selected_chunks[Len(selected_chunks)]].relevance_score

CallsSelect == pc = "selection" /\ Truthy(query)

\* C8 as stated: the call of select_most_relevant_chunks leaves the chunk
\* list and every chunk record as they were.
C8_NoSideEffects == [][CallsSelect => chunks' = chunks]_vars

\* C8 as amended: the call leaves the chunk list and every chunk with score
\* 0 as they were; a chunk with a positive score changes in the key
\* relevance_score alone, which is set to the score.
C8_OnlyRelevanceScoreSet ==
    [][CallsSelect =>
          /\ Len(chunks') = Len(chunks)
          /\ \A i \in 1..Len(chunks) :
                 LET score == Score(chunks[i], QueryKeywords)
                 IN  chunks'[i] = IF score > 0
                                  THEN SetField(chunks[i], "relevance_score", score)
                                  ELSE chunks[i]]_vars

\* after a call, one chunk has got a relevance_score and another has none
C8_Witness ==
    /\ AfterQuerySelection
    /\ \E i \in 1..Len(chunks) : "relevance_score" \in DOMAIN chunks[i]
    /\ \E i \in 1..Len(chunks) : "relevance_score" \notin DOMAIN chunks[i]

\* C9 as stated: without a query and with at least 10 chunks, exactly 10
\* chunks are selected.
C9_ExactlyTen ==
    (AfterNoQuerySelection /\ Len(chunks) >= 10) => Len(selected_chunks) = 10

\* ceil(a / b) for a >= 0, b > 0
CeilDiv(a, b) == (a + b - 1) \div b

\* C9 as amended: without a query and with n >= 10 chunks, chunk 0 and the
\* ceil((n - 1) / N) chunks 1, 1 + N, 1 + 2N, ... are selected, N being
\* floor(n / 10): 10 to 19 chunks, 10 of them only for n = 10.
C9_TenToNineteen ==
    (AfterNoQuerySelection /\ Len(chunks) >= 10) =>
        LET n == Len(chunks)
            N == n \div 10
            count == Len(selected_chunks)
        IN  /\ count = 1 + CeilDiv(n - 1, N)
            /\ chunks[selected_chunks[1]].chunk_id = 0
            /\ \A j \in 2..count :
                   chunks[selected_chunks[j]].chunk_id = 1 + (j - 2) * N
            /\ count >= 10
            /\ count <= 19
            /\ count = 10 <=> n = 10

\* a document of 100 chunks: 11 are selected
C9_Witness ==
    /\ AfterNoQuerySelection
    /\ Len(chunks) = 100
    /\ Len(selected_chunks) = 11

\* chunk_id of the j-th selected chunk
SelectedId(j) == chunks[selected_chunks[j]].chunk_id

\* C10: without a query the selection starts with chunk 0, is in strictly
\* ascending chunk_id order (no chunk twice), and the chunks after chunk 0
\* are N = max(1, floor(n / 10)) apart and reach the end of the document.
C10_NoQuerySpacing ==
    AfterNoQuerySelection =>
        LET n == Len(chunks)
            N == Max2(1, n \div 10)
            count == Len(selected_chunks)
        IN  /\ count >= 1
            /\ SelectedId(1) = 0
            /\ \A j \in 1..(count - 1) : SelectedId(j) < SelectedId(j + 1)
            /\ \A j \in 2..(count - 1) : SelectedId(j + 1) - SelectedId(j) = N
            /\ n >= 2 => count >= 2 /\ n - 1 - SelectedId(count) < N

\* 25 chunks: every second chunk after chunk 0
C10_Witness ==
    /\ AfterNoQuerySelection
    /\ Len(chunks) = 25
    /\ Len(selected_chunks) = 13
    /\ SelectedId(3) - SelectedId(2) = 2

-----------------------------------------------------------------------------
(* Properties of stream_pdf_pages and stream_upload_file *)

Drained == pc = "streamed" /\ ~stream.raised

\* C20: the batches yielded for a document of P pages and batch size B,
\* concatenated, are the P page texts in page order, each page once; every
\* batch has 1 to B pages, only the last may have fewer than B, and none is
\* yielded for P = 0.
C20_BatchesCoverPages ==
    Drained =>
        LET batches == stream.batches
            B == stream.batch_size
        IN  /\ Flatten(batches) = doc.pages
            /\ \A i \in 1..Len(batches) : Len(batches[i]) >= 1 /\ Len(batches[i]) <= B
            /\ \A i \in 1..(Len(batches) - 1) : Len(batches[i]) = B
            /\ Len(doc.pages) = 0 => batches = <<>>

\* five different pages in batches of two: two full batches and a short one
C20_Witness ==
    /\ Drained
    /\ stream.batch_size = 2
    /\ Len(doc.pages) = 5
    /\ doc.pages[1] # doc.pages[2]
    /\ Len(stream.batches) = 3
    /\ Len(stream.batches[3]) = 1

-----------------------------------------------------------------------------
(* Properties of FastEmbedder *)

Calls == embedder.calls

\* the texts of a list, as a set
Elems(seq) == {seq[i] : i \in 1..Len(seq)}

\* C11: a text embedded in two successful embed_batch calls on one instance
\* gets the same vector in both, and the later call does not hand it to
\* model.encode; a call whose texts were all embedded before invokes
\* model.encode not at all.
C11_CacheHit ==
    \A j \in 1..Len(Calls) : Calls[j].ok =>
        /\ \A i \in 1..(j - 1) : Calls[i].ok =>
               \A a \in 1..Len(Calls[i].texts), b \in 1..Len(Calls[j].texts) :
                   Calls[i].texts[a] = Calls[j].texts[b] =>
                       /\ Calls[i].result[a] = Calls[j].result[b]
                       /\ Calls[j].texts[b] \notin Elems(Calls[j].encoded)
        /\ (\A b \in 1..Len(Calls[j].texts) :
                \E i \in 1..(j - 1) :
                    Calls[i].ok /\ Calls[j].texts[b] \in Elems(Calls[i].texts))
               => Calls[j].encoded = <<>>

\* the second call repeats a text of the first and brings a new one: only
\* the new one is encoded
C11_Witness ==
    /\ Len(Calls) = 2
    /\ Calls[1].ok /\ Calls[2].ok
    /\ Calls[1].texts = <<Text_pay>>
    /\ Calls[2].texts = <<Text_pay, Text_xyz>>
    /\ Calls[2].encoded = <<Text_xyz>>
    /\ Calls[2].result[1] = Calls[1].result[1]

\* how often a text occurs in the lists handed to model.encode by the
\* calls that returned
RECURSIVE TimesEncoded(_, _)
TimesEncoded(text, j) ==
    IF j = 0 THEN 0
    ELSE TimesEncoded(text, j - 1)
         + (IF Calls[j].ok
            THEN Cardinality({b \in 1..Len(Calls[j].encoded) : Calls[j].encoded[b] = text})
            ELSE 0)

\* C12: a text that occurs several times among the texts given to one
\* embedder, also within one embed_batch call, is handed to the model once.
C12_DuplicateEncodedOnce ==
    \A text \in EmbedTexts : TimesEncoded(text, Len(Calls)) <= 1

\* C13: when model.encode (or load_model) raises, the call returns no
\* vector for any text and leaves the cache and the chunks as they were;
\* in the pipeline the run ends with status "error", no embedding or upload
\* entry, no chunk with an embedding, and no call to the index.
C13_EncodeFailureFailsCall ==
    /\ [](\A j \in 1..Len(Calls) : ~Calls[j].ok => Calls[j].result = <<>>)
    /\ [](raised.at = "embedding" =>
              /\ pc = "done"
              /\ stats.status = "error"
              /\ Recorded = StagePrefix(3)
              /\ pinecone.uploads = <<>>
              /\ \A i \in 1..Len(chunks) : "embedding" \notin DOMAIN chunks[i])
    /\ [][(Len(embedder'.calls) > 0 /\ embedder' # embedder
              /\ ~embedder'.calls[Len(embedder'.calls)].ok)
             => /\ embedder'.embedding_cache = embedder.embedding_cache
                /\ chunks' = chunks
                /\ pc' # "upload"]_vars

\* model.encode raised on two chunks with different texts
C13_Witness ==
    /\ raised.at = "embedding"
    /\ raised.type = "RuntimeError"
    /\ Len(selected_chunks) = 2
    /\ embedder.calls[1].encoded = <<Text_pay, Text_xyz>>

-----------------------------------------------------------------------------
(* Properties of async_upsert_to_pinecone *)

Uploads == pinecone.uploads

\* the positions of the upsert calls of an upload that raised
FailedCalls(u) == {i \in 1..Len(u.calls) : ~u.calls[i].ok}

\* the chunk_ids of the records an upsert call carries
CallChunkIds(call) == {call.vectors[a].metadata.chunk_id : a \in 1..Len(call.vectors)}

RECURSIVE SumLen(_, _)
SumLen(calls, onlyOk) ==
    IF calls = <<>> THEN 0
    ELSE (IF Head(calls).ok \/ ~onlyOk THEN Len(Head(calls).vectors) ELSE 0)
         + SumLen(Tail(calls), onlyOk)

\* the candidate chunks that have an embedding
Embedded(u) == {i \in 1..Len(u.chunks) : "embedding" \in DOMAIN u.chunks[i]}

\* C14: every upsert call carries at most batch_size records, also after
\* an earlier upsert call raised.
C14_CallsWithinBatchSize ==
    \A k \in 1..Len(Uploads) : \A i \in 1..Len(Uploads[k].calls) :
        Len(Uploads[k].calls[i].vectors) <= Uploads[k].batch_size

\* C15: when an upsert call raises, whichever batch it is,
\* async_upsert_to_pinecone returns its summary and does not raise.
C15_UpsertFailureCaught ==
    \A k \in 1..Len(Uploads) : FailedCalls(Uploads[k]) # {} => Uploads[k].ok

\* C16: the records of an upsert call that raised are in no later upsert
\* call and are not counted in uploaded_chunks.
C16_FailedBatchSkipped ==
    \A k \in 1..Len(Uploads) :
        LET u == Uploads[k]
        IN  /\ \A i \in FailedCalls(u) : \A j \in (i + 1)..Len(u.calls) :
                   CallChunkIds(u.calls[i]) \cap CallChunkIds(u.calls[j]) = {}
            /\ (u.ok /\ FailedCalls(u) # {}) =>
                   u.summary.uploaded_chunks < Cardinality(Embedded(u))

\* C17: the returned summary has total_chunks = number of candidate chunks,
\* uploaded_chunks = number of records in the upsert calls that did not
\* raise (chunks without an embedding are in no call), and status
\* "success" exactly when the two are equal, else "partial".
C17_SummaryCounts ==
    \A k \in 1..Len(Uploads) :
        LET u == Uploads[k]
        IN  u.ok =>
              /\ u.summary.total_chunks = Len(u.chunks)
              /\ u.summary.uploaded_chunks = SumLen(u.calls, TRUE)
              /\ u.summary.status \in {"success", "partial"}
              /\ u.summary.status = "success"
                    <=> u.summary.uploaded_chunks = u.summary.total_chunks
              /\ \A i \in 1..Len(u.calls) :
                     CallChunkIds(u.calls[i]) \subseteq {j - 1 : j \in Embedded(u)}

\* an upsert call raised, a chunk had no embedding, and the call returned
\* "partial"
C17_Witness ==
    /\ pc = "uploaded"
    /\ Uploads[1].ok
    /\ FailedCalls(Uploads[1]) # {}
    /\ Cardinality(Embedded(Uploads[1])) < Len(Uploads[1].chunks)
    /\ Uploads[1].summary.uploaded_chunks >= 2
    /\ Uploads[1].summary.status = "partial"

\* the id async_upsert_to_pinecone gives the record of a text, line 330
VectorId(text) == <<"chunk_", Md5(text)>>

\* the records of the upsert calls that did not raise
UploadedRecords ==
    UNION {UNION {{u.calls[i].vectors[a] : a \in 1..Len(u.calls[i].vectors)} :
                     i \in {i \in 1..Len(u.calls) : u.calls[i].ok}} :
              u \in {Uploads[k] : k \in 1..Len(Uploads)}}

\* C19: the id of a record is determined by its chunk text; the index
\* holds at most one record for a text, and the record found under the id
\* of an uploaded chunk has that chunk's text as metadata chunk_text.
C19_OneRecordPerText ==
    /\ \A id \in DOMAIN pinecone.index :
           /\ pinecone.index[id].id = id
           /\ id = VectorId(pinecone.index[id].metadata.chunk_text)
    /\ \A id1, id2 \in DOMAIN pinecone.index :
           pinecone.index[id1].metadata.chunk_text
               = pinecone.index[id2].metadata.chunk_text => id1 = id2
    /\ \A r \in UploadedRecords :
           /\ VectorId(r.metadata.chunk_text) \in DOMAIN pinecone.index
           /\ pinecone.index[VectorId(r.metadata.chunk_text)].metadata.chunk_text
                  = r.metadata.chunk_text

\* two chunks with one text went up in two upsert calls: one record, the
\* later chunk's; a chunk with another text has its own record
C19_Witness ==
    /\ pc = "uploaded"
    /\ Uploads[1].ok
    /\ Uploads[1].batch_size = 1
    /\ Len(Uploads[1].calls) = 3
    /\ FailedCalls(Uploads[1]) = {}
    /\ Uploads[1].chunks[1].chunk_text = Text_pay
    /\ Uploads[1].chunks[2].chunk_text = Text_pay
    /\ Cardinality(DOMAIN pinecone.index) = 2
    /\ pinecone.index[VectorId(Text_pay)].metadata.chunk_id = 1

\* C18: when a selected chunk failed to upload, the run returns status
\* "partial" with all five stage entries and uploaded_chunks below
\* total_chunks.
C18_PartialStatus ==
    (pc = "done" /\ \E k \in 1..Len(Uploads) : FailedCalls(Uploads[k]) # {}) =>
        /\ stats.status = "partial"
        /\ Recorded = StagePrefix(5)
        /\ stats.steps.upload.uploaded_chunks < stats.steps.upload.total_chunks

-----------------------------------------------------------------------------
(* Properties of the relevance score *)

Word_payment == <<"p","a","y","m","e","n","t">>
Word_penalty == <<"p","e","n","a","l","t","y">>

\* the lower-cased text of chunk i
TextLower(i) == Lower(chunks[i].chunk_text)

\* the number of keywords of the query that occur in chunk i, of important
\* terms that occur in it, and whether "term" or "condition" occurs in it
KeywordHits(i) ==
    Cardinality({k \in 1..Len(QueryKeywords) : Contains(QueryKeywords[k], TextLower(i))})
TermHits(i) ==
    Cardinality({t \in 1..Len(important_terms) : Contains(important_terms[t], TextLower(i))})
TermsSection(i) ==
    Contains(Word_term, TextLower(i)) \/ Contains(Word_condition, TextLower(i))

ExpectedScore(i) ==
    (IF chunks[i].chunk_id = 0 THEN 100 ELSE 0)
    + 50 * KeywordHits(i) + 10 * TermHits(i)
    + (IF TermsSection(i) THEN 20 ELSE 0)

\* chunk i precedes chunk j in the selection, or j is not selected
SelectedBefore(i, j) ==
    \A b \in 1..Len(selected_chunks) : selected_chunks[b] = j =>
        \E a \in 1..(b - 1) : selected_chunks[a] = i

\* C22: the relevance_score of a chunk is 100 if its chunk_id is 0, plus 50
\* per query keyword occurring in its lower-cased text, plus 10 per
\* important term occurring in it, plus 20 if "term" or "condition" occurs
\* in it (a chunk whose sum is 0 gets no relevance_score); a chunk holding
\* both keywords "payment" and "penalty" scores at least 100 and precedes
\* every chunk in which no keyword and no term occurs.
C22_ScoreFormula ==
    AfterQuerySelection =>
        /\ \A i \in 1..Len(chunks) :
               /\ "relevance_score" \in DOMAIN chunks[i] <=> ExpectedScore(i) > 0
               /\ ExpectedScore(i) > 0 => chunks[i].relevance_score = ExpectedScore(i)
        /\ \A i, j \in 1..Len(chunks) :
               (/\ {Word_payment, Word_penalty} \subseteq Elems(QueryKeywords)
                /\ Contains(Word_payment, TextLower(i))
                /\ Contains(Word_penalty, TextLower(i))
                /\ KeywordHits(j) = 0 /\ TermHits(j) = 0 /\ ~TermsSection(j))
               => /\ chunks[i].relevance_score >= 100
                  /\ SelectedBefore(i, j)

\* the second chunk holds both keywords (in capitals) and goes before the
\* first chunk, which matches nothing and has the first-chunk bonus only
C22_Witness ==
    /\ AfterQuerySelection
    /\ query = Query_payment_PENALTY
    /\ Len(chunks) = 3
    /\ chunks[1].chunk_text = Text_xyz
    /\ chunks[2].chunk_text = Text_Payment_Penalty
    /\ chunks[2].relevance_score = 110
    /\ chunks[1].relevance_score = 100
    /\ selected_chunks[1] = 2
    /\ selected_chunks[2] = 1

-----------------------------------------------------------------------------
(* Properties of the choice between the two selection policies *)

\* the query yields no keyword: it is None, empty, or whitespace only
NoKeywords == ~Truthy(query) \/ SplitWhitespace(Lower(query)) = <<>>

\* C23: when the query yields no keyword, the selection stage selects by
\* the no-query policy (chunk 0 and every Nth chunk) and scores no chunk
\* (stated for documents with no more chunks than the cap of the scoring
\* policy, so that the cap cannot be what makes the selections differ).
C23_NoKeywordsFallback ==
    (pc = "embedding" /\ NoKeywords /\ Len(chunks) <= top_k) =>
        /\ selected_chunks = NoQuerySelection(chunks)
        /\ \A i \in 1..Len(chunks) : "relevance_score" \notin DOMAIN chunks[i]

-----------------------------------------------------------------------------
(* Properties of the embedding cache *)

\* the assignments to the cache made by the calls before call j
WrittenBefore(j) ==
    UNION {{Calls[i].writes[a] : a \in 1..Len(Calls[i].writes)} : i \in 1..(j - 1)}

\* C24: an entry of embedding_cache, once written, is neither removed nor
\* given another vector: not by a step of the embedder, not by an
\* assignment of a later call, and not by the assignment for a later
\* occurrence of the same text in the same call.
C24_CacheEntriesImmutable ==
    /\ [][\A h \in DOMAIN embedder.embedding_cache :
             embedder'.calls # <<>> /\ Len(embedder'.calls) >= Len(embedder.calls) =>
                 /\ h \in DOMAIN embedder'.embedding_cache
                 /\ embedder'.embedding_cache[h] = embedder.embedding_cache[h]]_vars
    /\ [](\A j \in 1..Len(Calls) :
             /\ \A a, b \in 1..Len(Calls[j].writes) :
                    Calls[j].writes[a].text_hash = Calls[j].writes[b].text_hash
                        => Calls[j].writes[a].embedding = Calls[j].writes[b].embedding
             /\ \A w \in WrittenBefore(j) : \A b \in 1..Len(Calls[j].writes) :
                    Calls[j].writes[b].text_hash = w.text_hash
                        => Calls[j].writes[b].embedding = w.embedding)
    /\ [](\A j \in 1..Len(Calls) : \A a \in 1..Len(Calls[j].writes) :
             /\ Calls[j].writes[a].text_hash \in DOMAIN embedder.embedding_cache
             /\ embedder.embedding_cache[Calls[j].writes[a].text_hash]
                    = Calls[j].writes[a].embedding)

\* a text occurred twice in the first call and again in the second: it was
\* assigned twice, with one vector, and not again
C24_Witness ==
    /\ Len(Calls) = 2
    /\ Calls[1].ok /\ Calls[2].ok
    /\ Calls[1].texts = <<Text_pay, Text_pay>>
    /\ Len(Calls[1].writes) = 2
    /\ Calls[2].texts = <<Text_xyz, Text_pay>>
    /\ Len(Calls[2].writes) = 1
    /\ embedder.embedding_cache[Md5(Text_pay)] = Calls[1].result[1]

-----------------------------------------------------------------------------
(* Properties of the chunk ids *)

\* C25: the chunks carry the chunk_ids 0, 1, ..., n-1 in list order, every
\* chunk_text is trimmed and non-empty, and whitespace-only sections make
\* no chunk and take no id: the chunks are those of the document's
\* non-blank sections alone.
C25_ChunkIdsContiguous ==
    AfterChunkingStage =>
        /\ \A i \in 1..Len(chunks) :
               /\ chunks[i].chunk_id = i - 1
               /\ chunks[i].chunk_text # <<>>
               /\ chunks[i].chunk_text = Strip(chunks[i].chunk_text)
        /\ Len(chunks) <= Len(NonBlank(PageSections))
        /\ chunks = intelligent_chunk_split(NonBlank(PageSections), max_chunk_chars)

\* two chunks, from a document with a whitespace-only section between its
\* two other sections
C25_Witness ==
    /\ AfterChunkingStage
    /\ Len(chunks) = 2
    /\ chunks[2].chunk_id = 1
    /\ Len(PageSections) > Len(NonBlank(PageSections))
    /\ Len(NonBlank(PageSections)) = 2

-----------------------------------------------------------------------------
(* Properties of the pending buffer of async_upsert_to_pinecone *)

\* C28: when async_upsert_to_pinecone returns, uploaded_chunks is the
\* number of input chunks with an embedding, whichever upsert calls raised:
\* the records of a call that raised are all in the next call, and status
\* "partial" is returned exactly when an input chunk has no embedding.
C28_ReturnedCountsAllEmbedded ==
    \A k \in 1..Len(Uploads) :
        LET u == Uploads[k]
        IN  u.ok =>
              /\ u.summary.uploaded_chunks = Cardinality(Embedded(u))
              /\ u.summary.status = "partial"
                    <=> Cardinality(Embedded(u)) < Len(u.chunks)
              /\ \A i \in FailedCalls(u) :
                     /\ i < Len(u.calls)
                     /\ CallChunkIds(u.calls[i]) \subseteq CallChunkIds(u.calls[i + 1])

\* every chunk had an embedding, an upsert call raised, and the call
\* returned with all of them counted
C28_Witness ==
    /\ pc = "uploaded"
    /\ Uploads[1].ok
    /\ FailedCalls(Uploads[1]) # {}
    /\ Cardinality(Embedded(Uploads[1])) = Len(Uploads[1].chunks)
    /\ Len(Uploads[1].chunks) >= 3
    /\ Uploads[1].summary.uploaded_chunks = Len(Uploads[1].chunks)
    /\ Uploads[1].summary.status = "success"

-----------------------------------------------------------------------------
(* Properties of the size of the selection *)

\* C29: the embedding stage is reached only with at least one selected
\* chunk, with a query (given a cap of at least 1; the pipeline's is 15)
\* and without: a run on an empty chunk list ends in the selection stage.
C29_SelectionNonEmpty ==
    (pc = "embedding" /\ top_k >= 1) =>
        /\ Len(chunks) >= 1
        /\ Len(selected_chunks) >= 1
        /\ Truthy(query) => chunks[1].relevance_score >= 100
        /\ ~Truthy(query) => selected_chunks[1] = 1

\* a query that matches nothing in three chunks: chunk 0 alone is selected
C29_Witness ==
    /\ pc = "embedding"
    /\ query = Query_pay
    /\ top_k >= 1
    /\ Len(chunks) = 3
    /\ \A i \in 1..3 : chunks[i].chunk_text = Text_xyz
    /\ selected_chunks = <<1>>

-----------------------------------------------------------------------------
(* Properties of a page whose text cannot be extracted *)

\* the page texts with an empty string for each page that cannot be
\* extracted
WithEmptyForFailed(pages) ==
    [i \in 1..Len(pages) |-> IF pages[i] = ExtractError THEN <<>> ELSE pages[i]]

\* C21: for an openable document, a page whose extraction fails yields an
\* empty string and the remaining pages are yielded; the generator does
\* not raise.
C21_FailedPageYieldsEmpty ==
    (pc = "streamed" /\ doc.openable) =>
        /\ ~stream.raised
        /\ Flatten(stream.batches) = WithEmptyForFailed(doc.pages)

-----------------------------------------------------------------------------
(* Properties of the admission gate of fast_batch_upload *)

BatchFiles == 1..Len(batch_upload.files)

\* the files inside the "async with semaphore" block of upload_file
InSection == {i \in BatchFiles : batch_upload.files[i] \in {"reading", "processing"}}

FileJobStatus(i) == processing_jobs[batch_upload.file_jobs[i]].status

-----------------------------------------------------------------------------
(* Properties of the job status reported by the upload API *)

Jobs == DOMAIN processing_jobs

HasStats(j) == "processing_stats" \in DOMAIN processing_jobs[j]

\* the pipeline call of the background task, or of an upload_file task,
\* returns in this step
PipelineReturns(j) ==
    \/ /\ request.pc = "processing" /\ request'.pc # "processing"
       /\ j = request.job_id
    \/ \E i \in BatchFiles :
          /\ batch_upload.files[i] = "processing"
          /\ batch_upload'.files[i] # "processing"
          /\ j = batch_upload.file_jobs[i]

\* C30: whenever fast_process_large_document returns, the job is set to
\* "completed" with the returned stats under processing_stats, whatever
\* status those stats carry; a job that holds stats is never reported as
\* "error"; and a job reaches the status "error" only when reading the
\* upload raised, outside the pipeline call.
C30_CompletedWhateverTheStats ==
    /\ [][\A j \in Jobs : PipelineReturns(j) =>
              /\ processing_jobs'[j].status = "completed"
              /\ processing_jobs'[j].processing_stats \in PipelineResults]_vars
    /\ [](\A j \in Jobs : HasStats(j) =>
              processing_jobs[j].status \in {"completed", "analyzing"})
    /\ [](\A j \in Jobs : processing_jobs[j].status = "error" =>
              /\ ~HasStats(j)
              /\ j = request.job_id
              /\ request.read_raised)

\* a job reported as "completed" whose stats carry the status "error", in
\* the batch endpoint
C30_Witness ==
    \E i \in BatchFiles :
        /\ batch_upload.files[i] = "done"
        /\ FileJobStatus(i) = "completed"
        /\ processing_jobs[batch_upload.file_jobs[i]].processing_stats.status = "error"

-----------------------------------------------------------------------------
(* Properties of the execution times of ParallelProcessor *)

Timed == DOMAIN processor.execution_times

AgentNamesOf(agents) == {agents[i].name : i \in 1..Len(agents)}

\* C27: after run_blocking over any list of agents, in sequential or in
\* parallel mode, whether it returned or state.update raised,
\* execution_times has an entry for the name of every agent of the list,
\* the agents whose function raised included; and each agent is timed as
\* soon as its call is over.
C27_EveryAgentTimed ==
    /\ processor.pc \in {"returned", "raised"} =>
           AgentNamesOf(processor.agents) \subseteq Timed
    /\ processor.pc = "running" =>
           AgentNamesOf(SubSeq(processor.agents, 1, processor.next)) = Timed

\* run_blocking is over and a raising agent is the only one of its name
C27_Witness ==
    /\ processor.pc \in {"returned", "raised"}
    /\ \E i \in 1..Len(processor.agents) :
           /\ processor.agents[i].behaviour = "raises"
           /\ \A k \in 1..Len(processor.agents) :
                  k # i => processor.agents[k].name # processor.agents[i].name
           /\ processor.agents[i].name \in Timed

====
